---------------------------- MODULE Spec2Model ----------------------------
(***************************************************************************)
(* A model of gotagger (src/gotagger.go): image preparation, batch         *)
(* chunking, the MCut threshold, prediction assembly and the tensor        *)
(* handling of TaggerSession.Run.                                          *)
(*                                                                         *)
(* Numbers.  Scores and thresholds are float32 in the source.  A float32   *)
(* value v is the integer v * 2^29 here: every float32 in [2^-5, 1] is a   *)
(* whole multiple of 2^-28, so the scores of the model (all in that range) *)
(* are exact, and subtraction and addition round their exact result to 24  *)
(* significant bits, ties to even, as IEEE 754 single precision does.      *)
(* float32(0.15) is 80530640, float32(0.35) is 187904816, float32(0.85) is *)
(* 456340288.  Strings are sequences of one-character strings.             *)
(*                                                                         *)
(* Indexes.  Go slices are 0-based, TLA+ sequences 1-based: a Go index i   *)
(* into a slice d is d[i + 1] here.  Index sets of the tag catalog keep    *)
(* the 0-based values of the source.                                       *)
(***************************************************************************)
EXTENDS Integers, Sequences, FiniteSets, TLC

\* ----------------------------------------------------------------- bounds
\* Longest image sequence handed to Run.
MaxImages == 4
\* Largest fixed batch size a model declares.
MaxBatch == 3
\* Longest probability sequence handed to mcutThreshold on its own.
MaxProbs == 4
\* Largest width and height of an image handed to prepareInput on its own.
MaxDim == 3
\* Largest target size handed to prepareInput on its own.
MaxTarget == 3
\* Number of distinct images (one engine response each) Run is fed with.
NumKinds == 3

\* ------------------------------------------------------- program constants
\* DefaultGeneralThreshold float32 = 0.35.
DefaultGeneralThreshold == 187904816
\* DefaultCharacterThreshold float32 = 0.85.
DefaultCharacterThreshold == 456340288
\* The floor 0.15 of the MCut character threshold, as a float32.
CharacterFloor == 80530640
\* The dynamic (symbolic) batch dimension.
Dynamic == -1

\* ---------------------------------------------------------------- helpers
Abs(x) == IF x < 0 THEN -x ELSE x

Max(a, b) == IF a > b THEN a ELSE b

RECURSIVE Concat(_)
\* append(a, b...) over a sequence of sequences, left to right.
Concat(ss) == IF ss = <<>> THEN <<>> ELSE Head(ss) \o Concat(Tail(ss))

\* slices.Contains over a sequence.
Contains(seq, v) == \E k \in 1..Len(seq) : seq[k] = v

\* ------------------------------------------------------------------ float32
\* The float32 values the scores of the model are taken from: 0.05, 0.15,
\* 0.25, 0.35, 0.5, 0.75 and 0.9, each the float32 nearest to the decimal.
ScoreGrid ==
    <<26843546, 80530640, 134217728, 187904816, 268435456, 402653184, 483183808>>
F005 == ScoreGrid[1]
F015 == ScoreGrid[2]
F025 == ScoreGrid[3]
F035 == ScoreGrid[4]
F050 == ScoreGrid[5]
F075 == ScoreGrid[6]
F090 == ScoreGrid[7]

RECURSIVE Ulp(_, _)
\* The spacing of the float32 values around n >= 0: the least power of two u,
\* from u on, that leaves n at most 24 significant bits.
Ulp(n, u) == IF n \div u < 16777216 THEN u ELSE Ulp(n, 2 * u)

\* The float32 nearest to the exact value n >= 0, ties to even.
Round32(n) ==
    LET u == Ulp(n, 1)
        q == n \div u
        r == n % u
    IN  IF 2 * r > u \/ (2 * r = u /\ q % 2 = 1) THEN (q + 1) * u ELSE q * u

\* a - b (a >= b), a + b and x / 2 on float32 values.
Sub32(a, b) == Round32(a - b)
Add32(a, b) == Round32(a + b)
Half32(x) == x \div 2

\* ----------------------------------------------------------- tag catalog
\* var kaomojis: the names whose underscores are kept.
kaomojis ==
    { <<"0", "_", "0">>,
      <<"(", "o", ")", "_", "(", "o", ")">>,
      <<"+", "_", "+">>,
      <<"+", "_", "-">>,
      <<".", "_", ".">>,
      <<"<", "o", ">", "_", "<", "o", ">">>,
      <<"<", "|", ">", "_", "<", "|", ">">>,
      <<"=", "_", "=">>,
      <<">", "_", "<">>,
      <<"3", "_", "3">>,
      <<"6", "_", "9">>,
      <<">", "_", "o">>,
      <<"@", "_", "@">>,
      <<"^", "_", "^">>,
      <<"o", "_", "o">>,
      <<"u", "_", "u">>,
      <<"x", "_", "x">>,
      <<"|", "_", "|">>,
      <<"|", "|", "_", "|", "|">> }

\* The tags CSV the session is built from: whether os.Open succeeds, and the
\* name and category columns.  Code "9" is rating, "0" general, "4" character;
\* any other code gives the tag no category.
TagRows ==
    << [name |-> <<"s", "e", "n", "s", "i", "t", "i", "v", "e">>,
        category |-> "9"],
       [name |-> <<"1", "g", "i", "r", "l">>,
        category |-> "0"],
       [name |-> <<"^", "_", "^">>,
        category |-> "0"],
       [name |-> <<"h", "a", "t", "s", "u", "n", "e", "_", "m", "i", "k", "u">>,
        category |-> "4"],
       [name |-> <<"s", "a", "b", "e", "r">>,
        category |-> "4"],
       [name |-> <<"b", "a", "d", "_", "i", "d">>,
        category |-> "5"] >>

TagsFile == [opens |-> TRUE, rows |-> TagRows]

\* strings.ReplaceAll(record, "_", " ").
ReplaceUnderscores(record) ==
    [k \in 1..Len(record) |-> IF record[k] = "_" THEN " " ELSE record[k]]

\* The first loop of loadTags: a name keeps its underscores only if it is a
\* kaomoji.
NormalisedName(record) ==
    IF record \notin kaomojis THEN ReplaceUnderscores(record) ELSE record

RECURSIVE IndexesOf(_, _, _)
\* The 0-based positions of the rows with category code `code`, ascending,
\* scanning from row k (1-based): the switch of loadTags.
IndexesOf(rows, code, k) ==
    IF k > Len(rows) THEN <<>>
    ELSE (IF rows[k].category = code THEN <<k - 1>> ELSE <<>>)
         \o IndexesOf(rows, code, k + 1)

\* modelTags{}: the zero value.
NoTags ==
    [ names |-> <<>>, ratingIndexes |-> <<>>, generalIndexes |-> <<>>,
      characterIndexes |-> <<>> ]

\* loadTags(tagsPath): the catalog and whether an error is returned.
loadTags(file) ==
    IF ~file.opens THEN [tags |-> NoTags, err |-> TRUE]
    ELSE [ tags |->
             [ names            |-> [k \in 1..Len(file.rows) |->
                                        NormalisedName(file.rows[k].name)],
               ratingIndexes    |-> IndexesOf(file.rows, "9", 1),
               generalIndexes   |-> IndexesOf(file.rows, "0", 1),
               characterIndexes |-> IndexesOf(file.rows, "4", 1) ],
           err |-> FALSE ]

\* The catalog of every session of the model.
Tags == loadTags(TagsFile).tags

\* The model's per-image output width (output.Dimensions[1]).
OutWidth == Len(TagRows)

\* ------------------------------------------------------------------ images
\* An image is [w, h, pix]: pix maps <<x, y>>, 0 <= x < w, 0 <= y < h, to an
\* NRGBA colour <<R, G, B, A>> of 8-bit values.
White == <<255, 255, 255, 255>>

\* image.NRGBA.At: the zero colour outside the bounds.
At(img, x, y) ==
    IF <<x, y>> \in DOMAIN img.pix THEN img.pix[<<x, y>>] ELSE <<0, 0, 0, 0>>

\* color.NRGBA.RGBA: 16-bit alpha-premultiplied samples <<r, g, b, a>>.
RGBA(c) ==
    << ((c[1] * 257) * c[4]) \div 255,
       ((c[2] * 257) * c[4]) \div 255,
       ((c[3] * 257) * c[4]) \div 255,
       c[4] * 257 >>

\* x >> 8 on a 16-bit sample.
Shr8(x) == x \div 256

\* imaging.New(width, height, fill).
New(width, height, fill) ==
    [ w |-> width, h |-> height,
      pix |-> [p \in (0..(width - 1)) \X (0..(height - 1)) |-> fill] ]

\* imaging.Paste(background, img, pos): a copy of background with img drawn at
\* pos, pixel for pixel, clipped to the background.
Paste(background, img, pos) ==
    [ background EXCEPT !.pix =
        [ p \in DOMAIN background.pix |->
            IF <<p[1] - pos[1], p[2] - pos[2]>> \in DOMAIN img.pix
            THEN img.pix[<<p[1] - pos[1], p[2] - pos[2]>>]
            ELSE background.pix[p] ] ]

\* The canvas with img pasted at the top left corner instead of centred.
PaddedTopLeft(img) ==
    LET maxDim == Max(img.w, img.h)
    IN  Paste(New(maxDim, maxDim, White), img, <<0, 0>>)

\* Lines 152-166 of prepareInput: the white square canvas with img centred.
Padded(img) ==
    LET maxDim == Max(img.w, img.h)
        padded == New(maxDim, maxDim, White)
        offset == << (maxDim - img.w) \div 2, (maxDim - img.h) \div 2 >>
    IN  Paste(padded, img, offset)

\* What a pixel appends to data: float32(b>>8), float32(g>>8), float32(r>>8).
AppendPixel(c) ==
    LET s == RGBA(c) IN << Shr8(s[3]), Shr8(s[2]), Shr8(s[1]) >>

RECURSIVE EmitFrom(_, _, _, _)
\* The loops of prepareInput from position (x, y) on: y outer, x inner.
EmitFrom(processedImg, targetSize, y, x) ==
    IF y >= targetSize THEN <<>>
    ELSE IF x >= targetSize THEN EmitFrom(processedImg, targetSize, y + 1, 0)
    ELSE AppendPixel(At(processedImg, x, y))
         \o EmitFrom(processedImg, targetSize, y, x + 1)

\* Whether every pixel of a non-empty image has the same colour.
IsUniform(image) ==
    \A p \in DOMAIN image.pix, q \in DOMAIN image.pix : image.pix[p] = image.pix[q]

\* imaging.Resize(image, width, height, imaging.Lanczos) for an image of one
\* colour and a different size: every pixel of the result is a weighted mean,
\* with weights that sum to one, of equal pixels, so the result has that
\* colour (and is zero where the colour is fully transparent).  The resize
\* of an image of several colours is not modelled: the model resizes
\* one-colour canvases only.
Resize(image, width, height) ==
    LET c == CHOOSE v \in {image.pix[p] : p \in DOMAIN image.pix} :
                 \A p \in DOMAIN image.pix : image.pix[p] = v
    IN  New(width, height, IF c[4] = 0 THEN <<0, 0, 0, 0>> ELSE c)

\* prepareInput(img, targetSize).
prepareInput(img, targetSize) ==
    LET maxDim == Max(img.w, img.h)
        processedImg == IF maxDim # targetSize
                        THEN Resize(Padded(img), targetSize, targetSize)
                        ELSE Padded(img)
    IN  EmitFrom(processedImg, targetSize, 0, 0)

\* ------------------------------------------------------------------- MCut
RECURSIVE InsertDesc(_, _)
\* v inserted into the descending sequence s, after the elements equal to it.
InsertDesc(s, v) ==
    IF s = <<>> THEN <<v>>
    ELSE IF v > Head(s) THEN <<v>> \o s
    ELSE <<Head(s)>> \o InsertDesc(Tail(s), v)

RECURSIVE SortDesc(_)
\* slices.SortFunc with the descending comparison of mcutThreshold.
SortDesc(s) ==
    IF s = <<>> THEN <<>>
    ELSE InsertDesc(SortDesc(SubSeq(s, 1, Len(s) - 1)), s[Len(s)])

RECURSIVE MaxGapIndex(_, _, _, _)
\* The scan of mcutThreshold from Go index i on, with the running maxDiff and
\* maxIndex; the result is the final maxIndex (0-based).
MaxGapIndex(sortedProbs, i, maxDiff, maxIndex) ==
    IF i >= Len(sortedProbs) - 1 THEN maxIndex
    ELSE LET diff == Sub32(sortedProbs[i + 1], sortedProbs[i + 2])
         IN  IF diff > maxDiff
             THEN MaxGapIndex(sortedProbs, i + 1, diff, i)
             ELSE MaxGapIndex(sortedProbs, i + 1, maxDiff, maxIndex)

\* A scan that also takes a later pair of equal difference (>= for >).
RECURSIVE MaxGapIndexLast(_, _, _, _)
MaxGapIndexLast(sortedProbs, i, maxDiff, maxIndex) ==
    IF i >= Len(sortedProbs) - 1 THEN maxIndex
    ELSE LET diff == Sub32(sortedProbs[i + 1], sortedProbs[i + 2])
         IN  IF diff >= maxDiff
             THEN MaxGapIndexLast(sortedProbs, i + 1, diff, i)
             ELSE MaxGapIndexLast(sortedProbs, i + 1, maxDiff, maxIndex)

\* mcutThreshold with the later pair winning ties.
mcutThresholdLastWins(probs) ==
    IF Len(probs) < 2
    THEN (IF Len(probs) = 0 THEN 0 ELSE probs[1])
    ELSE LET sortedProbs == SortDesc(probs)
             maxIndex == MaxGapIndexLast(sortedProbs, 0, 0, 0)
         IN  Half32(Add32(sortedProbs[maxIndex + 1], sortedProbs[maxIndex + 2]))

\* mcutThreshold(probs).
mcutThreshold(probs) ==
    IF Len(probs) < 2
    THEN (IF Len(probs) = 0 THEN 0 ELSE probs[1])
    ELSE LET sortedProbs == SortDesc(probs)
             maxIndex == MaxGapIndex(sortedProbs, 0, 0, 0)
         IN  Half32(Add32(sortedProbs[maxIndex + 1], sortedProbs[maxIndex + 2]))

\* ------------------------------------------------------ prediction assembly
RECURSIVE GatherProbs(_, _, _)
\* The scores at the indexes of `indexes` that lie inside data, in the order
\* of `indexes`, from position k (1-based) on: the loops that build
\* generalProbs and characterProbs.
GatherProbs(indexes, data, k) ==
    IF k > Len(indexes) THEN <<>>
    ELSE (IF indexes[k] < Len(data) THEN <<data[indexes[k] + 1]>> ELSE <<>>)
         \o GatherProbs(indexes, data, k + 1)

\* computedGeneralThreshold: MCut over the general scores, or the caller's.
ComputedGeneralThreshold(tags, data, generalThr, generalMCut) ==
    IF generalMCut
    THEN mcutThreshold(GatherProbs(tags.generalIndexes, data, 1))
    ELSE generalThr

\* The character threshold with the floor forgotten.
ComputedCharacterThresholdNoFloor(tags, data, characterThr, characterMCut) ==
    IF characterMCut
    THEN mcutThreshold(GatherProbs(tags.characterIndexes, data, 1))
    ELSE characterThr

\* computedCharacterThreshold: MCut over the character scores raised to the
\* floor 0.15, or the caller's.
ComputedCharacterThreshold(tags, data, characterThr, characterMCut) ==
    IF characterMCut
    THEN LET t == mcutThreshold(GatherProbs(tags.characterIndexes, data, 1))
         IN  IF t < CharacterFloor THEN CharacterFloor ELSE t
    ELSE characterThr

\* m[name] = v on a Go map: the key is added or its value replaced.
MapPut(m, name, v) == (name :> v) @@ m

\* Predictions{General: {}, Rating: {}, Character: {}}.
EmptyPredictions == [General |-> <<>>, Rating |-> <<>>, Character |-> <<>>]

RECURSIVE FillFrom(_, _, _, _, _, _)
\* The loop `for index, pred := range data` from Go index `index` on.
FillFrom(p, tags, data, index, generalThr, characterThr) ==
    IF index >= Len(data) THEN p
    ELSE LET pred == data[index + 1]
             name == tags.names[index + 1]
             p1 == IF Contains(tags.ratingIndexes, index)
                   THEN [p EXCEPT !.Rating = MapPut(@, name, pred)] ELSE p
             p2 == IF Contains(tags.generalIndexes, index) /\ pred > generalThr
                   THEN [p1 EXCEPT !.General = MapPut(@, name, pred)] ELSE p1
             p3 == IF Contains(tags.characterIndexes, index) /\ pred > characterThr
                   THEN [p2 EXCEPT !.Character = MapPut(@, name, pred)] ELSE p2
         IN  FillFrom(p3, tags, data, index + 1, generalThr, characterThr)

\* The body of the loop over a chunk's images for one score vector `data`:
\* the Predictions of one image.
AssembleImage(tags, data, generalThr, characterThr, generalMCut, characterMCut) ==
    FillFrom(EmptyPredictions, tags, data, 0,
             ComputedGeneralThreshold(tags, data, generalThr, generalMCut),
             ComputedCharacterThreshold(tags, data, characterThr, characterMCut))

\* out[outSize*i : outSize*(i+1)] for the Go index i.
OutSlice(out, outSize, i) == SubSeq(out, outSize * i + 1, outSize * (i + 1))

\* Whether that slice expression is in range (out has capacity Len(out)).
SliceInRange(out, outSize, i) == outSize * (i + 1) <= Len(out)

\* ------------------------------------------------------------------ chunking
RECURSIVE Chunk(_, _)
\* slices.Chunk(s, n) collected, n >= 1.
Chunk(s, n) ==
    IF s = <<>> THEN <<>>
    ELSE IF Len(s) <= n THEN <<s>>
    ELSE <<SubSeq(s, 1, n)>> \o Chunk(SubSeq(s, n + 1, Len(s)), n)

\* Chunking by `size`, the absolute value of the batch size, in every case.
ChunksBySize(imgs, batch) == Chunk(imgs, Abs(batch))

\* The chunks of Run: the whole sequence as one chunk for a dynamic batch
\* size, chunks of batchSize images otherwise.
Chunks(imgs, batch) ==
    IF batch = Dynamic THEN <<imgs>> ELSE Chunk(imgs, batch)

\* ------------------------------------------------------------------- tensors
\* A tensor is [shape, data]; NoTensor stands for a variable not yet assigned.
NoTensor == [shape |-> <<>>, data |-> <<>>]

RECURSIVE FlattenedSize(_)
\* ort.Shape.FlattenedSize: the product of the dimensions.
FlattenedSize(shape) ==
    IF shape = <<>> THEN 1 ELSE Head(shape) * FlattenedSize(Tail(shape))

\* ort.Shape.Validate: a shape has a dimension, and every dimension is positive.
ValidShape(shape) == Len(shape) > 0 /\ \A k \in 1..Len(shape) : shape[k] > 0

\* ort.NewTensor(shape, data) refuses an invalid shape and a data slice shorter
\* than the shape needs; a longer slice is accepted and cut to the shape.
NewTensorRefuses(shape, data) ==
    ~ValidShape(shape) \/ FlattenedSize(shape) > Len(data)

NewTensor(shape, data) ==
    [shape |-> shape, data |-> SubSeq(data, 1, FlattenedSize(shape))]

\* ort.NewEmptyTensor(shape): zeroes.
NewEmptyTensor(shape) ==
    [shape |-> shape, data |-> [k \in 1..FlattenedSize(shape) |-> 0]]

\* --------------------------------------------------------- inference engine
\* The image of kind k: one pixel, so that no resize happens at target size 1.
KindImage(k) == New(1, 1, <<k, 128, 255, 255>>)

\* The engine's score vector for one input row <<b, g, r>> of a 1 x 1 image: a
\* fixed function of the pixel's red value, with values of ScoreGrid.
Infer(row) ==
    [j \in 1..OutWidth |->
        ScoreGrid[1 + (((row[3] * 7 + j * j) * (j + row[3])) % Len(ScoreGrid))]]

RECURSIVE InferRows(_, _, _)
\* The engine's flat output for the rows of an input buffer, row j on.
InferRows(data, rowLen, j) ==
    IF j * rowLen > Len(data) THEN <<>>
    ELSE Infer(SubSeq(data, (j - 1) * rowLen + 1, j * rowLen))
         \o InferRows(data, rowLen, j + 1)

\* --------------------------------------------------------------------- state
VARIABLES
    \* The session (TaggerSession).  input and output are the backing arrays of
    \* the slices s.input and s.output (ort.Shape is []int64): every copy of the
    \* session struct, and every copy of those slices, reads and writes them.
    input, output, batchSize, targetSize, modelTags,
    \* The call of Run in progress: where it is, its arguments, its locals and
    \* what it returned.
    pc, images, generalThreshold, characterThreshold,
    generalMCutEnabled, characterMCutEnabled,
    chunks, ci, inTensor, outTensor, predictions, ret,
    \* The tensors this call of Run allocated and has not destroyed:
    \* <<"in", c>> and <<"out", c>> for chunk number c.
    live,
    \* Whether, in this call, a library call failed although the arguments it
    \* was given were well-formed (a failure of the environment).
    envFault,
    \* mcutThreshold on its own: the caller's slice, the slice as it was when
    \* the call started, and the result.
    mcutPc, probs, probsAtCall, mcutRet,
    \* prepareInput on its own: the image, the image as it was when the call
    \* started, the target size, and the buffer returned.
    prepPc, img, imgAtCall, prepSize, prepData

sessionVars == <<input, output, batchSize, targetSize, modelTags>>
argVars == <<images, generalThreshold, characterThreshold,
             generalMCutEnabled, characterMCutEnabled>>
localVars == <<chunks, ci, inTensor, outTensor, predictions, ret, live, envFault>>
runVars == <<sessionVars, pc, argVars, localVars>>
mcutVars == <<mcutPc, probs, probsAtCall, mcutRet>>
prepVars == <<prepPc, img, imgAtCall, prepSize, prepData>>
vars == <<runVars, mcutVars, prepVars>>

\* What Run returns: kind "ok" with the predictions, kind "err" with nil, or
\* kind "panic" when the call ends in a Go run-time panic and returns nothing.
NoRet == [kind |-> "none", preds |-> <<>>]
RetOk(preds) == [kind |-> "ok", preds |-> preds]
RetErr == [kind |-> "err", preds |-> <<>>]
RetPanic == [kind |-> "panic", preds |-> <<>>]

\* The image sequences Run is called with.
ImageSeqs == UNION { [1..n -> {KindImage(k) : k \in 1..NumKinds}] : n \in 0..MaxImages }

\* The batch sizes a model declares.
BatchSizes == {Dynamic} \cup (1..MaxBatch)

\* The parts of the state the functions checked on their own do not use.
McutIdle ==
    /\ mcutPc = "off" /\ probs = <<>> /\ probsAtCall = <<>> /\ mcutRet = 0
PrepIdle ==
    /\ prepPc = "off" /\ img = New(1, 1, White) /\ imgAtCall = New(1, 1, White)
    /\ prepSize = 1 /\ prepData = <<>>

\* New(modelPath, tagsPath) for a model of input shape [batch, 1, 1, 3] and
\* output shape [batch, OutWidth].
NewSession(batch) ==
    /\ input = <<batch, 1, 1, 3>>
    /\ output = <<batch, OutWidth>>
    /\ batchSize = input[1]
    /\ targetSize = input[2]
    /\ modelTags = Tags

\* The call state before the first call of Run.
NoCall ==
    /\ pc = "idle"
    /\ images = <<>>
    /\ generalThreshold = DefaultGeneralThreshold
    /\ characterThreshold = DefaultCharacterThreshold
    /\ generalMCutEnabled = FALSE /\ characterMCutEnabled = FALSE
    /\ chunks = <<>> /\ ci = 1
    /\ inTensor = NoTensor /\ outTensor = NoTensor
    /\ predictions = <<>> /\ ret = NoRet
    /\ live = {} /\ envFault = FALSE

Init ==
    /\ \E batch \in BatchSizes : NewSession(batch)
    /\ NoCall
    /\ McutIdle
    /\ PrepIdle

\* ----------------------------------------------------------------------- Run
\* make([]float32, ...) and the loop appending prepareInput of each image.
\* Every image of the model has the session's target size, so prepareInput
\* never resizes.
ImgData(chunk, size) ==
    Concat([k \in 1..Len(chunk) |-> prepareInput(chunk[k], size)])

\* size := int(math.Abs(float64(s.batchSize))): the batch dimension the call
\* writes into a symbolic shape.
ResolvedBatch(batch, chunk) == Abs(batch)

\* shape := s.input (or s.output); if shape[0] == -1 { shape[0] = size }.
\* The local shares its backing array with the session's slice, so the result
\* is both the local shape and the session's array after the statement.
Resolve(shape, size) ==
    IF shape[1] = Dynamic THEN [shape EXCEPT ![1] = size] ELSE shape

\* Run is entered: lines 254-261.
RunCall ==
    /\ pc = "idle"
    /\ \E imgs \in ImageSeqs, gm \in BOOLEAN, cm \in BOOLEAN :
         /\ images' = imgs
         /\ generalMCutEnabled' = gm
         /\ characterMCutEnabled' = cm
         /\ chunks' = Chunks(imgs, batchSize)
    /\ generalThreshold' = DefaultGeneralThreshold
    /\ characterThreshold' = DefaultCharacterThreshold
    /\ predictions' = <<>>
    /\ ci' = 1
    /\ inTensor' = NoTensor /\ outTensor' = NoTensor
    /\ ret' = NoRet /\ live' = {} /\ envFault' = FALSE
    /\ pc' = "loop"
    /\ UNCHANGED <<sessionVars, mcutVars, prepVars>>

\* Lines 264-278 with ort.NewTensor succeeding.
NewInTensorOk ==
    /\ pc = "loop" /\ ci <= Len(chunks)
    /\ LET imgData == ImgData(chunks[ci], targetSize)
           inShape == Resolve(input, ResolvedBatch(batchSize, chunks[ci]))
       IN  /\ ~NewTensorRefuses(inShape, imgData)
           /\ input' = inShape
           /\ inTensor' = NewTensor(inShape, imgData)
    /\ live' = live \cup {<<"in", ci>>}
    /\ pc' = "out"
    /\ UNCHANGED <<output, batchSize, targetSize, modelTags, argVars, chunks, ci,
                   outTensor, predictions, ret, envFault, mcutVars, prepVars>>

\* Lines 264-278 with ort.NewTensor failing: return nil, err.
NewInTensorErr ==
    /\ pc = "loop" /\ ci <= Len(chunks)
    /\ LET imgData == ImgData(chunks[ci], targetSize)
           inShape == Resolve(input, ResolvedBatch(batchSize, chunks[ci]))
       IN  /\ input' = inShape
           /\ \/ NewTensorRefuses(inShape, imgData) /\ UNCHANGED envFault
              \/ ~NewTensorRefuses(inShape, imgData) /\ envFault' = TRUE
    /\ ret' = RetErr
    /\ pc' = "returned"
    /\ UNCHANGED <<output, batchSize, targetSize, modelTags, argVars, chunks, ci,
                   inTensor, outTensor, predictions, live, mcutVars, prepVars>>

\* Lines 280-290 with ort.NewEmptyTensor succeeding.
NewOutTensorOk ==
    /\ pc = "out"
    /\ LET outShape == Resolve(output, ResolvedBatch(batchSize, chunks[ci]))
       IN  /\ ValidShape(outShape)
           /\ output' = outShape
           /\ outTensor' = NewEmptyTensor(outShape)
    /\ live' = live \cup {<<"out", ci>>}
    /\ pc' = "session"
    /\ UNCHANGED <<input, batchSize, targetSize, modelTags, argVars, chunks, ci,
                   inTensor, predictions, ret, envFault, mcutVars, prepVars>>

\* Lines 280-290 with ort.NewEmptyTensor failing: return nil, err.
NewOutTensorErr ==
    /\ pc = "out"
    /\ LET outShape == Resolve(output, ResolvedBatch(batchSize, chunks[ci]))
       IN  /\ output' = outShape
           /\ envFault' = (envFault \/ ValidShape(outShape))
    /\ ret' = RetErr
    /\ pc' = "returned"
    /\ UNCHANGED <<input, batchSize, targetSize, modelTags, argVars, chunks, ci,
                   inTensor, outTensor, predictions, live, mcutVars, prepVars>>

\* Line 292 with s.Session.Run succeeding: the engine fills the output tensor
\* with one score vector per row of the input tensor.
SessionRunOk ==
    /\ pc = "session"
    /\ inTensor.shape[1] = outTensor.shape[1]
    /\ outTensor' = [outTensor EXCEPT !.data =
                        InferRows(inTensor.data, 3 * targetSize * targetSize, 1)]
    /\ pc' = "assemble"
    /\ UNCHANGED <<sessionVars, argVars, chunks, ci, inTensor, predictions, ret,
                   live, envFault, mcutVars, prepVars>>

\* Lines 292-295 with s.Session.Run failing: return nil, err.
SessionRunErr ==
    /\ pc = "session"
    /\ envFault' = (envFault \/ inTensor.shape[1] = outTensor.shape[1])
    /\ ret' = RetErr
    /\ pc' = "returned"
    /\ UNCHANGED <<sessionVars, argVars, chunks, ci, inTensor, outTensor,
                   predictions, live, mcutVars, prepVars>>

\* Lines 297-350: the Predictions of every image of the chunk are appended,
\* then both tensors are destroyed and the loop goes to the next chunk.
AssembleChunk ==
    /\ pc = "assemble"
    /\ LET out == outTensor.data
           outSize == outTensor.shape[2]
           n == Len(chunks[ci])
       IN  /\ \A i \in 0..(n - 1) : SliceInRange(out, outSize, i)
           /\ predictions' = predictions \o
                [k \in 1..n |->
                    AssembleImage(modelTags, OutSlice(out, outSize, k - 1),
                                  generalThreshold, characterThreshold,
                                  generalMCutEnabled, characterMCutEnabled)]
    /\ live' = live \ {<<"out", ci>>, <<"in", ci>>}
    /\ ci' = ci + 1
    /\ pc' = "loop"
    /\ UNCHANGED <<sessionVars, argVars, chunks, inTensor, outTensor, ret,
                   envFault, mcutVars, prepVars>>

\* Line 299 with the slice expression out of range: a run-time panic leaves
\* Run at once, with nothing returned and nothing destroyed.
AssemblePanic ==
    /\ pc = "assemble"
    /\ \E i \in 0..(Len(chunks[ci]) - 1) :
          ~SliceInRange(outTensor.data, outTensor.shape[2], i)
    /\ ret' = RetPanic
    /\ pc' = "returned"
    /\ UNCHANGED <<sessionVars, argVars, chunks, ci, inTensor, outTensor,
                   predictions, live, envFault, mcutVars, prepVars>>

\* Line 352, after the last chunk: return predictions, nil.
ReturnOk ==
    /\ pc = "loop" /\ ci > Len(chunks)
    /\ ret' = RetOk(predictions)
    /\ pc' = "returned"
    /\ UNCHANGED <<sessionVars, argVars, chunks, ci, inTensor, outTensor,
                   predictions, live, envFault, mcutVars, prepVars>>

\* The caller has taken what Run returned (or the panic has unwound): the
\* frame of the call is gone, and the session can be used for the next call.
\* Tensors the call did not destroy stay allocated, but no later call of this
\* model refers to them.
CallOver ==
    /\ pc = "returned"
    /\ pc' = "idle"
    /\ images' = <<>>
    /\ generalThreshold' = DefaultGeneralThreshold
    /\ characterThreshold' = DefaultCharacterThreshold
    /\ generalMCutEnabled' = FALSE /\ characterMCutEnabled' = FALSE
    /\ chunks' = <<>> /\ ci' = 1
    /\ inTensor' = NoTensor /\ outTensor' = NoTensor
    /\ predictions' = <<>> /\ ret' = NoRet
    /\ live' = {} /\ envFault' = FALSE
    /\ UNCHANGED <<sessionVars, mcutVars, prepVars>>

Next ==
    \/ RunCall
    \/ CallOver
    \/ NewInTensorOk
    \/ NewInTensorErr
    \/ NewOutTensorOk
    \/ NewOutTensorErr
    \/ SessionRunOk
    \/ SessionRunErr
    \/ AssembleChunk
    \/ AssemblePanic
    \/ ReturnOk

Spec == Init /\ [][Next]_vars

\* ------------------------------------------------- mcutThreshold on its own
\* The scores mcutThreshold is fed with on its own.
ScoreLevels == {F005, F015, F025, F035, F050, F075}

\* The probability sequences handed to mcutThreshold.
ProbSeqs == UNION { [1..n -> ScoreLevels] : n \in 0..MaxProbs }

InitMcut ==
    /\ NewSession(1)
    /\ NoCall
    /\ PrepIdle
    /\ mcutPc = "call"
    /\ probs \in ProbSeqs
    /\ probsAtCall = probs
    /\ mcutRet = 0

\* A call mcutThreshold(probs).  The function sorts a copy (make, copy), so the
\* caller's slice keeps its contents.
McutCall ==
    /\ mcutPc = "call"
    /\ mcutRet' = mcutThreshold(probs)
    /\ probs' = probs
    /\ mcutPc' = "done"
    /\ UNCHANGED <<runVars, prepVars, probsAtCall>>

NextMcut == McutCall

SpecMcut == InitMcut /\ [][NextMcut]_vars

\* -------------------------------------------------- prepareInput on its own
\* An image whose pixels all differ: the colour encodes the position.
CodedImage(w, h, base, alpha) ==
    [ w |-> w, h |-> h,
      pix |-> [p \in (0..(w - 1)) \X (0..(h - 1)) |->
                  <<base + 16 * p[1] + 1, base + 16 * p[2] + 2, base + 3, alpha>>] ]

\* The images handed to prepareInput, of every size up to MaxDim x MaxDim:
\* position-coded ones, opaque and half transparent, and one-colour ones.
PrepImages ==
    { CodedImage(w, h, base, alpha) :
        w \in 1..MaxDim, h \in 1..MaxDim, base \in {0, 100}, alpha \in {255, 128} }
    \cup
    { New(w, h, c) :
        w \in 1..MaxDim, h \in 1..MaxDim,
        c \in {White, <<40, 50, 60, 255>>, <<200, 100, 50, 128>>, <<9, 9, 9, 0>>} }

\* The pairs of an image and a target size handed to prepareInput: every
\* image at the target size that needs no resize, and at every target size
\* the images whose padded canvas has one colour.
PrepInputs ==
    { a \in PrepImages \X (1..MaxTarget) :
        Max(a[1].w, a[1].h) = a[2] \/ IsUniform(Padded(a[1])) }

InitPrepare ==
    /\ NewSession(1)
    /\ NoCall
    /\ McutIdle
    /\ prepPc = "call"
    /\ \E a \in PrepInputs : img = a[1] /\ prepSize = a[2]
    /\ imgAtCall = img
    /\ prepData = <<>>

\* A call prepareInput(img, targetSize) in which maxDim == targetSize: the
\* padded canvas is read as it is.
PrepareNoResize ==
    /\ prepPc = "call"
    /\ Max(img.w, img.h) = prepSize
    /\ prepData' = prepareInput(img, prepSize)
    /\ img' = img
    /\ prepPc' = "done"
    /\ UNCHANGED <<runVars, mcutVars, imgAtCall, prepSize>>

\* A call prepareInput(img, targetSize) in which maxDim != targetSize: the
\* canvas is resized.
PrepareResize ==
    /\ prepPc = "call"
    /\ Max(img.w, img.h) # prepSize
    /\ prepData' = prepareInput(img, prepSize)
    /\ img' = img
    /\ prepPc' = "done"
    /\ UNCHANGED <<runVars, mcutVars, imgAtCall, prepSize>>

NextPrepare == PrepareNoResize \/ PrepareResize

SpecPrepare == InitPrepare /\ [][NextPrepare]_vars

\* ---------------------------------- prediction assembly for any engine output
\* The thresholds a caller passes.
GeneralThresholds == {F015, DefaultGeneralThreshold}
CharacterThresholds == {F035, DefaultCharacterThreshold}

\* The scores an engine writes at the general and character indexes.
AssemblyLevels == {F005, F015, F035, F075}

\* The score vectors an engine may write for one image: any level at the
\* general and character indexes, two levels at the others.
ScoreVectors ==
    { <<r, g1, g2, c1, c2, x>> :
        r \in {F005, F090}, g1 \in AssemblyLevels, g2 \in AssemblyLevels,
        c1 \in AssemblyLevels, c2 \in AssemblyLevels, x \in {F015, F090} }

\* The output buffers of a chunk of one or two images: any score vector for
\* the first image, the vector of one of the image kinds for the second.
ChunkOutputs ==
    ScoreVectors \cup
    { v \o Infer(<<255, 128, k>>) : v \in ScoreVectors, k \in 1..NumKinds }

\* A call of Run on a session of fixed batch size n with a single chunk of n
\* images, at the point where the engine has written its output (line 297).
InitAssemble ==
    /\ \E out \in ChunkOutputs :
         LET n == Len(out) \div OutWidth IN
         /\ NewSession(n)
         /\ images = [k \in 1..n |-> KindImage(1)]
         /\ chunks = <<images>>
         /\ inTensor = NewTensor(input, ImgData(images, targetSize))
         /\ outTensor = [shape |-> output, data |-> out]
    /\ pc = "assemble"
    /\ ci = 1
    /\ generalThreshold \in GeneralThresholds
    /\ characterThreshold \in CharacterThresholds
    /\ generalMCutEnabled \in BOOLEAN
    /\ characterMCutEnabled \in BOOLEAN
    /\ predictions = <<>>
    /\ ret = NoRet
    /\ live = {<<"in", 1>>, <<"out", 1>>}
    /\ envFault = FALSE
    /\ McutIdle
    /\ PrepIdle

\* The rest of that call: the chunk is assembled and Run returns.
NextAssemble == AssembleChunk \/ ReturnOk

SpecAssemble == InitAssemble /\ [][NextAssemble]_vars

\* ===================================================================== claims
\* The score vector the engine gives for image number k of the call.
ScoresOfImage(k) == Infer(prepareInput(images[k], targetSize))

\* C1: for every image count N >= 1 and every declared batch size, with an
\* engine that does not fail on well-formed tensors, Run returns exactly N
\* Predictions and the k-th is the one assembled from the score vector of the
\* k-th input image.
C1_OnePredictionPerImage ==
    (pc = "returned" /\ Len(images) >= 1 /\ ~envFault) =>
        /\ ret.kind = "ok"
        /\ Len(ret.preds) = Len(images)
        /\ \A k \in 1..Len(images) :
              ret.preds[k] = AssembleImage(modelTags, ScoresOfImage(k),
                                           generalThreshold, characterThreshold,
                                           generalMCutEnabled, characterMCutEnabled)

\* C2: with a dynamic declared batch dimension, the input tensor and the
\* output tensor handed to the engine have the chunk's image count as their
\* batch dimension, so the input tensor holds N * 3 * targetSize * targetSize
\* elements.
C2_DynamicBatchIsChunkLength ==
    (batchSize = Dynamic /\ Len(images) >= 1 /\ pc \in {"session", "assemble"}) =>
        /\ inTensor.shape[1] = Len(chunks[ci])
        /\ outTensor.shape[1] = Len(chunks[ci])
        /\ Len(inTensor.data) = Len(images) * 3 * targetSize * targetSize

\* C3: a call of Run ends either with an error and no Predictions, or with
\* the Predictions of every input image; there is no other outcome.
C3_NoPartialSuccess ==
    pc = "returned" =>
        \/ ret = RetErr
        \/ ret.kind = "ok" /\ Len(ret.preds) = Len(images)

\* C4: no step of Run changes the session: its declared input and output
\* shapes, batchSize, targetSize and tag catalog keep their values.
C4_SessionReadOnly == [][sessionVars' = sessionVars]_vars

\* C5: a non-empty image sequence of length N is cut, for a fixed batch size
\* B, into ceil(N / B) chunks, all of B images but the last, which has 1 to B,
\* and the chunks concatenated give back the sequence; for the dynamic batch
\* size there is one chunk, the whole sequence.
C5_Chunking ==
    (pc # "idle" /\ images # <<>>) =>
        IF batchSize = Dynamic
        THEN chunks = <<images>>
        ELSE /\ Len(chunks) = (Len(images) + batchSize - 1) \div batchSize
             /\ \A c \in 1..(Len(chunks) - 1) : Len(chunks[c]) = batchSize
             /\ Len(chunks[Len(chunks)]) \in 1..batchSize
             /\ Concat(chunks) = images

\* C5, witnessed: three images under batch size 2 give a full chunk and a
\* chunk of one.
C5_Witness ==
    /\ pc = "loop" /\ batchSize = 2 /\ Len(images) = 3
    /\ Len(chunks) = 2 /\ Len(chunks[1]) = 2 /\ Len(chunks[2]) = 1

\* C6: for an empty image sequence Run makes no chunk and no tensor, whatever
\* the declared batch size, and returns an empty prediction sequence without
\* error.
C6_EmptyInputNoChunk ==
    (pc # "idle" /\ images = <<>>) =>
        /\ chunks = <<>>
        /\ inTensor = NoTensor /\ outTensor = NoTensor
        /\ pc = "returned" => ret = RetOk(<<>>)

\* C10: no tensor outlives its chunk: none is live when the next chunk starts
\* or when Run has returned, on any path, and at most one input/output pair
\* is live at a time.
C10_TensorsReleased ==
    /\ pc \in {"loop", "returned"} => live = {}
    /\ \A t \in live : t[2] = ci

\* The number of elements of p greater than v, and greater than or equal to v.
CountGreater(p, v) == Cardinality({j \in 1..Len(p) : p[j] > v})
CountAtLeast(p, v) == Cardinality({j \in 1..Len(p) : p[j] >= v})

\* The descending-sorted copy of p, by rank: position k holds the value v with
\* fewer than k elements above it and at least k elements not below it.
DescendingCopy(p) ==
    [k \in 1..Len(p) |->
        CHOOSE v \in {p[j] : j \in 1..Len(p)} :
            CountGreater(p, v) < k /\ k <= CountAtLeast(p, v)]

\* C7: mcutThreshold returns 0 for the empty sequence, the element of a
\* one-element sequence, and otherwise the midpoint of the adjacent pair of
\* the descending-sorted copy with the largest difference, the first such pair
\* winning ties, differences and midpoint being computed in float32; the
\* result lies between the least and the greatest element, and the caller's
\* sequence is unchanged.
C7_Mcut ==
    mcutPc = "done" =>
        LET n == Len(probsAtCall)
            s == DescendingCopy(probsAtCall)
            gap(j) == Sub32(s[j], s[j + 1])
        IN  /\ probs = probsAtCall
            /\ n = 0 => mcutRet = 0
            /\ n = 1 => mcutRet = probsAtCall[1]
            /\ n >= 2 =>
                 \E i \in 1..(n - 1) :
                    /\ \A j \in 1..(n - 1) : gap(j) <= gap(i)
                    /\ \A j \in 1..(i - 1) : gap(j) < gap(i)
                    /\ mcutRet = Half32(Add32(s[i], s[i + 1]))
            /\ n >= 1 =>
                 /\ \E j \in 1..n : probsAtCall[j] <= mcutRet
                 /\ \E j \in 1..n : probsAtCall[j] >= mcutRet

\* C7, witnessed: for 0.5, 0.25, 0.75 the two gaps of the sorted copy are
\* equal and the first pair (0.75, 0.5) gives 0.625.
C7_Witness ==
    mcutPc = "done" /\ probsAtCall = <<F050, F025, F075>> /\ mcutRet = 335544320

\* The members of a Go index slice, as a set.
IndexSet(indexes) == {indexes[k] : k \in 1..Len(indexes)}

\* The map from the names of the indexes of idx whose score passes (is above
\* thr when `filtered`) to those scores.
ReferenceMap(tags, data, idx, filtered, thr) ==
    LET keep == {i \in idx : filtered => data[i + 1] > thr}
    IN  [nm \in {tags.names[i + 1] : i \in keep} |->
            data[(CHOOSE i \in keep : tags.names[i + 1] = nm) + 1]]

\* The reference assembly of one image's score vector.
ReferencePredictions(tags, data, generalThr, characterThr, generalMCut, characterMCut) ==
    LET gi == tags.generalIndexes
        chi == tags.characterIndexes
        tg == IF generalMCut
              THEN mcutThreshold([k \in 1..Len(gi) |-> data[gi[k] + 1]])
              ELSE generalThr
        tc == IF characterMCut
              THEN Max(CharacterFloor,
                       mcutThreshold([k \in 1..Len(chi) |-> data[chi[k] + 1]]))
              ELSE characterThr
    IN  [ Rating    |-> ReferenceMap(tags, data, IndexSet(tags.ratingIndexes), FALSE, 0),
          General   |-> ReferenceMap(tags, data, IndexSet(gi), TRUE, tg),
          Character |-> ReferenceMap(tags, data, IndexSet(chi), TRUE, tc) ]

\* C8: the Predictions of each image of a chunk are the reference assembly of
\* that image's own score vector: every rating tag with its score, the general
\* tags strictly above the general threshold (MCut of the image's general
\* scores, or the caller's), the character tags strictly above the character
\* threshold (MCut of the image's character scores raised to 0.15, or the
\* caller's), and nothing else.
C8_Assembly ==
    (pc = "loop" /\ ci > 1) =>
        LET n == Len(chunks[ci - 1])
            base == Len(predictions) - n
        IN  \A k \in 1..n :
               predictions[base + k] =
                  ReferencePredictions(modelTags,
                                       OutSlice(outTensor.data, OutWidth, k - 1),
                                       generalThreshold, characterThreshold,
                                       generalMCutEnabled, characterMCutEnabled)

\* C8, witnessed: a chunk of two images; in the first a general score equal to
\* the caller's threshold 0.35 is left out while 0.9 is kept, and the character
\* scores 0.15 and 0.05 fall under the MCut threshold raised to the floor.
C8_Witness ==
    /\ pc = "loop" /\ ci = 2 /\ Len(predictions) = 2
    /\ ~generalMCutEnabled /\ generalThreshold = DefaultGeneralThreshold
    /\ characterMCutEnabled
    /\ SubSeq(outTensor.data, 2, 5) = <<F035, F075, F015, F005>>
    /\ DOMAIN predictions[1].General = {<<"^", "_", "^">>}
    /\ DOMAIN predictions[1].Character = {}
    /\ DOMAIN predictions[1].Rating = {modelTags.names[1]}
    /\ predictions[2] # predictions[1]

\* The three values a source pixel contributes: its channels in B, G, R order
\* when it is opaque, the alpha-premultiplied 8-bit samples otherwise.
PixelValues(c) ==
    IF c[4] = 255 THEN <<c[3], c[2], c[1]>> ELSE AppendPixel(c)

\* C9: prepareInput returns exactly 3 * targetSize * targetSize values and
\* leaves the image as it was; when max(width, height) equals targetSize the
\* buffer is, row by row, the image pasted unscaled at the offset
\* ((maxDim - width) / 2, (maxDim - height) / 2) of a white canvas, each pixel
\* in B, G, R order.
C9_Prepare ==
    prepPc = "done" =>
        LET w == imgAtCall.w
            h == imgAtCall.h
            maxDim == Max(w, h)
            ox == (maxDim - w) \div 2
            oy == (maxDim - h) \div 2
        IN  /\ Len(prepData) = 3 * prepSize * prepSize
            /\ img = imgAtCall
            /\ maxDim = prepSize =>
                 \A x \in 0..(prepSize - 1), y \in 0..(prepSize - 1) :
                    LET k == 3 * (y * prepSize + x)
                        inside == (x - ox) \in 0..(w - 1) /\ (y - oy) \in 0..(h - 1)
                    IN  <<prepData[k + 1], prepData[k + 2], prepData[k + 3]>> =
                          IF inside THEN PixelValues(imgAtCall.pix[<<x - ox, y - oy>>])
                          ELSE <<255, 255, 255>>

\* C9, witnessed: an opaque 1 x 3 image at target size 3 lands in the middle
\* column, with white to its left.
C9_Witness ==
    /\ prepPc = "done" /\ imgAtCall.w = 1 /\ imgAtCall.h = 3 /\ prepSize = 3
    /\ imgAtCall.pix[<<0, 0>>] = <<1, 2, 3, 255>>
    /\ Len(prepData) = 27
    /\ SubSeq(prepData, 1, 9) = <<255, 255, 255, 3, 2, 1, 255, 255, 255>>
=============================================================================
